---- MODULE Spec2Model ----
(***************************************************************************)
(* Rhythm Rush (src/main.js): the session object `state`, the frame loop,  *)
(* the input handlers, the hit-removal timers and the high-score storage.  *)
(*                                                                         *)
(* Units.  Times are integer milliseconds.  Vertical positions are         *)
(* integer milli-pixels, so that  t.y += speed * (dt / 1000)  with speed   *)
(* in px/s and dt in ms is the exact integer  y + speed * dt.              *)
(* state.elapsed is kept in milliseconds (the code keeps seconds), so      *)
(* Math.floor(state.elapsed / 10) is  elapsed \div 10000.                  *)
(* state.spawnInterval is kept in thousandths of a millisecond; the        *)
(* product with SPAWN_DECAY is rounded down to that grid.                  *)
(* The canvas is CanvasHeight CSS pixels high at devicePixelRatio 1.       *)
(* A frame's timestamp and the nowMs() read inside it are the same clock   *)
(* value.  Tile objects are told apart by a per-session serial number;     *)
(* saveCount, priorBest and maxReached are history variables.              *)
(* The script is modelled as it runs with themeBtn declared once (it is    *)
(* declared at lines 31 and 34).                                           *)
(***************************************************************************)
EXTENDS Integers, Sequences, FiniteSets

\* ---------------------------------------------------------------- config
COLS == 4
TILE_HEIGHT_RATIO_PCT == 18
BASE_SPEED == 220
SPEED_INCREASE_RATE == 8
INITIAL_SPAWN_INTERVAL == 900
SPAWN_DECAY_PCT == 98
MIN_SPAWN_INTERVAL == 220
HIT_WINDOW == 36
HIT_LINE_PCT == 65
FIRST_SPAWN_DELAY == 120
REMOVE_DELAY == 180
SPEED_STEP_MS == 10000

\* ------------------------------------------------------------ environment
CanvasHeight == 200
StartClock == 50
Mpx == 1000
SiScale == 1000

\* ----------------------------------------------------------------- bounds
TickMs == 350
MaxNow == 2850
MaxStored == 1
MaxNowD == 6400
PriorBestD == 3
MaxNowL == 47000
MaxNowF == 2850
MaxNowN == 4250
MaxIdF == 3

Cols == 0 .. (COLS - 1)

VARIABLES
    state,      \* the session object, or NULL
    storage,    \* localStorage[HIGH_SCORE_KEY], as the integer parseInt gives
    now,        \* performance.now()
    raf,        \* "scheduled": a gameLoop callback is pending; "dead": none
    frameTs,    \* timestamp of the last frame the browser delivered
    timers,     \* pending setTimeout callbacks of doHit: [tile, due]
    nextId,     \* identity of the next tile object of this session
    saveCount,  \* history: saveHighScore calls since the session was created
    priorBest,  \* history: the high score the session loaded
    maxReached  \* history: max of the first stored value and every score

vars == <<state, storage, now, raf, frameTs, timers, nextId,
          saveCount, priorBest, maxReached>>

NULL == [null |-> TRUE]

\* ---------------------------------------------------------------- helpers
Max(a, b) == IF a >= b THEN a ELSE b
Abs(a) == IF a >= 0 THEN a ELSE -a

\* tiles.filter(t => !t._removed), order kept
FilterKept(tiles) ==
    LET F[i \in 0 .. Len(tiles)] ==
            IF i = 0 THEN <<>>
            ELSE IF tiles[i].removed THEN F[i - 1]
                 ELSE Append(F[i - 1], tiles[i])
    IN  F[Len(tiles)]

loadHighScore == storage

newState ==
    [ tiles |-> <<>>,
      score |-> 0,
      highScore |-> loadHighScore,
      running |-> FALSE,
      paused |-> FALSE,
      gameOver |-> FALSE,
      lastTime |-> 0,
      spawnInterval |-> INITIAL_SPAWN_INTERVAL * SiScale,
      lastSpawnAt |-> 0,
      baseSpeed |-> BASE_SPEED,
      elapsed |-> 0 ]

tileHeight == (CanvasHeight * Mpx * TILE_HEIGHT_RATIO_PCT) \div 100
hitLineY == (CanvasHeight * Mpx * HIT_LINE_PCT) \div 100

\* the y beyond which an unhit tile is a miss (update, line 186)
missLine == hitLineY + HIT_WINDOW * Mpx + tileHeight

\* the hit test of handlePointer (lines 345-346)
inHitWindow(t) == Abs((t.y + tileHeight \div 2) - hitLineY) <= HIT_WINDOW * Mpx

\* mutant: the hit test forgets the tile's hit flag
mut_eligible_ignoresHit(t, col) == t.col = col /\ inHitWindow(t)

eligible(t, col) == t.col = col /\ ~t.hit /\ inHitWindow(t)

\* the lifecycle state the flags of a session stand for
Lifecycle(s) ==
    IF s = NULL THEN "Idle"
    ELSE IF s.gameOver THEN "GameOver"
    ELSE IF ~s.running THEN "Idle"
    ELSE IF s.paused THEN "Paused"
    ELSE "Running"

\* --------------------------------------------------------------- stepper
spawnTile(s, col) ==
    [s EXCEPT !.tiles = Append(@, [id |-> nextId, col |-> col,
                                   y |-> -tileHeight, hit |-> FALSE,
                                   removed |-> FALSE]),
              !.lastSpawnAt = now]

spawnDue(s) == (now - s.lastSpawnAt) * SiScale > s.spawnInterval

\* mutant: the floor of the spawn interval is forgotten
mut_decayed_noFloor(si) == (si * SPAWN_DECAY_PCT) \div 100

decayed(si) == Max(MIN_SPAWN_INTERVAL * SiScale, (si * SPAWN_DECAY_PCT) \div 100)

fallSpeed(s) == s.baseSpeed + SPEED_INCREASE_RATE * (s.elapsed \div SPEED_STEP_MS)

\* mutant: the tiles do not fall
mut_moveTiles_still(tiles, speed, dt) == tiles

moveTiles(tiles, speed, dt) ==
    [i \in DOMAIN tiles |-> [tiles[i] EXCEPT !.y = @ + speed * dt]]

\* mutant: the miss check forgets !t.hit
mut_missed_countsHit(tiles) == \E i \in DOMAIN tiles : tiles[i].y > missLine

\* mutant: a tile is missed as soon as its centre leaves the hit window
mut_missed_atWindowEnd(tiles) ==
    \E i \in DOMAIN tiles :
        /\ ~tiles[i].hit
        /\ tiles[i].y + tileHeight \div 2 > hitLineY + HIT_WINDOW * Mpx

missed(tiles) == \E i \in DOMAIN tiles : ~tiles[i].hit /\ tiles[i].y > missLine

\* mutant: game over clears the score
mut_doGameOver_resetScore(s) ==
    IF s.gameOver THEN s
    ELSE [s EXCEPT !.gameOver = TRUE, !.running = FALSE, !.score = 0]

\* mutant: game over forgets running = false
mut_doGameOver_keepsRunning(s) ==
    IF s.gameOver THEN s
    ELSE [s EXCEPT !.gameOver = TRUE]

\* mutant: the game over drops the tiles that were missed
mut_doGameOver_dropsMissed(s) ==
    IF s.gameOver THEN s
    ELSE [s EXCEPT !.gameOver = TRUE, !.running = FALSE,
                   !.tiles = SelectSeq(@, LAMBDA t : t.hit \/ t.y <= missLine)]

doGameOver(s) ==
    IF s.gameOver THEN s
    ELSE [s EXCEPT !.gameOver = TRUE, !.running = FALSE]

\* mutant: the speed is computed before dt is added to elapsed
mut_update_speedBefore(s, dt, col) ==
    IF ~s.running \/ s.paused \/ s.gameOver THEN s
    ELSE LET s1 == [s EXCEPT !.elapsed = @ + dt]
             speed == fallSpeed(s)
             s2 == IF spawnDue(s1)
                   THEN [spawnTile(s1, col) EXCEPT
                            !.spawnInterval = decayed(@)]
                   ELSE s1
             s3 == [s2 EXCEPT !.tiles = moveTiles(@, speed, dt)]
         IN  IF missed(s3.tiles) THEN doGameOver(s3)
             ELSE [s3 EXCEPT !.tiles = FilterKept(@)]

\* mutant: the clean-up at the end of update is forgotten
mut_update_noCleanup(s, dt, col) ==
    IF ~s.running \/ s.paused \/ s.gameOver THEN s
    ELSE LET s1 == [s EXCEPT !.elapsed = @ + dt]
             speed == fallSpeed(s1)
             s2 == IF spawnDue(s1)
                   THEN [spawnTile(s1, col) EXCEPT
                            !.spawnInterval = decayed(@)]
                   ELSE s1
             s3 == [s2 EXCEPT !.tiles = moveTiles(@, speed, dt)]
         IN  IF missed(s3.tiles) THEN doGameOver(s3)
             ELSE s3

\* mutant: the early return forgets state.paused
mut_update_runsPaused(s, dt, col) ==
    IF ~s.running \/ s.gameOver THEN s
    ELSE LET s1 == [s EXCEPT !.elapsed = @ + dt]
             speed == fallSpeed(s1)
             s2 == IF spawnDue(s1)
                   THEN [spawnTile(s1, col) EXCEPT
                            !.spawnInterval = decayed(@)]
                   ELSE s1
             s3 == [s2 EXCEPT !.tiles = moveTiles(@, speed, dt)]
         IN  IF missed(s3.tiles) THEN doGameOver(s3)
             ELSE [s3 EXCEPT !.tiles = FilterKept(@)]

update(s, dt, col) ==
    IF ~s.running \/ s.paused \/ s.gameOver THEN s
    ELSE LET s1 == [s EXCEPT !.elapsed = @ + dt]
             speed == fallSpeed(s1)
             s2 == IF spawnDue(s1)
                   THEN [spawnTile(s1, col) EXCEPT
                            !.spawnInterval = decayed(@)]
                   ELSE s1
             s3 == [s2 EXCEPT !.tiles = moveTiles(@, speed, dt)]
         IN  IF missed(s3.tiles) THEN doGameOver(s3)
             ELSE [s3 EXCEPT !.tiles = FilterKept(@)]

\* update reaches spawnTile
spawns(s) == s.running /\ ~s.paused /\ ~s.gameOver /\ spawnDue(s)

\* what one gameLoop(ts) call leaves in `state`
\* mutant: the frame after a resume measures its delta from time 0
mut_frameDt_noReset(s, ts) == ts - s.lastTime

frameDt(s, ts) == IF s.lastTime = 0 THEN 0 ELSE ts - s.lastTime

gameLoopState(s, ts, col) ==
    update([s EXCEPT !.lastTime = ts], frameDt(s, ts), col)

\* requestAnimationFrame callback; ts is the clock at the frame.  With
\* state = null the read of state.lastTime throws before the loop is
\* rescheduled.
\* C: the columns Math.random() can give in this frame.
GameLoopIn(C) ==
    /\ raf = "scheduled"
    /\ now > frameTs
    /\ frameTs' = now
    /\ IF state = NULL
       THEN /\ raf' = "dead"
            /\ UNCHANGED <<state, nextId>>
       ELSE /\ raf' = raf
            /\ \E col \in C :
                 /\ state' = gameLoopState(state, now, col)
                 /\ nextId' = IF spawns(state) THEN nextId + 1 ELSE nextId
    /\ UNCHANGED <<storage, now, timers, saveCount, priorBest, maxReached>>

GameLoop == GameLoopIn(Cols)

\* ------------------------------------------------------------- commands
\* mutant: startGame reuses the old session object
mut_startedState_reuse ==
    IF state = NULL
    THEN [newState EXCEPT !.running = TRUE,
                          !.lastSpawnAt = now + FIRST_SPAWN_DELAY]
    ELSE [state EXCEPT !.running = TRUE, !.gameOver = FALSE,
                       !.paused = FALSE, !.lastTime = 0,
                       !.lastSpawnAt = now + FIRST_SPAWN_DELAY,
                       !.spawnInterval = INITIAL_SPAWN_INTERVAL * SiScale]

\* the session startGame leaves in `state`
startedState ==
    [newState EXCEPT !.running = TRUE,
                     !.lastSpawnAt = now + FIRST_SPAWN_DELAY]

\* A new session object has a new tiles array: the tile objects of the old
\* one, and the timers that hold them, can no longer reach `state`.
startGame ==
    /\ state' = startedState
    /\ timers' = {}
    /\ nextId' = 1
    /\ saveCount' = 0
    /\ priorBest' = loadHighScore
    /\ UNCHANGED <<storage, now, raf, frameTs, maxReached>>

\* mutant: resume forgets to clear the frame clock
mut_pauseToggleState_keepClock(s) ==
    IF s.gameOver \/ ~s.running THEN s
    ELSE [s EXCEPT !.paused = ~@]

pauseToggleState(s) ==
    IF s.gameOver \/ ~s.running THEN s
    ELSE IF s.paused
         THEN [s EXCEPT !.paused = FALSE, !.lastTime = 0]
         ELSE [s EXCEPT !.paused = TRUE]

pauseToggle ==
    /\ state' = IF state = NULL THEN state ELSE pauseToggleState(state)
    /\ UNCHANGED <<storage, now, raf, frameTs, timers, nextId,
                   saveCount, priorBest, maxReached>>

\* mutant: the column test of the scan is dropped
mut_found_anyColumn(tiles, col) ==
    IF \E i \in DOMAIN tiles : ~tiles[i].hit /\ inHitWindow(tiles[i])
    THEN CHOOSE i \in DOMAIN tiles :
            /\ ~tiles[i].hit /\ inHitWindow(tiles[i])
            /\ \A j \in 1 .. (i - 1) :
                 tiles[j].hit \/ ~inHitWindow(tiles[j])
    ELSE 0

\* mutant: the search keeps the last eligible tile, not the first
mut_found_lastEligible(tiles, col) ==
    IF \E i \in DOMAIN tiles : eligible(tiles[i], col)
    THEN CHOOSE i \in DOMAIN tiles :
            /\ eligible(tiles[i], col)
            /\ \A j \in (i + 1) .. Len(tiles) : ~eligible(tiles[j], col)
    ELSE 0

\* index of the tile handlePointer finds in column col, 0 if none
found(tiles, col) ==
    IF \E i \in DOMAIN tiles : eligible(tiles[i], col)
    THEN CHOOSE i \in DOMAIN tiles :
            /\ eligible(tiles[i], col)
            /\ \A j \in 1 .. (i - 1) : ~eligible(tiles[j], col)
    ELSE 0

\* mutant: tile.hit = true is forgotten
mut_doHitState_noFlag(s, i) ==
    LET sc == s.score + 1
    IN  [s EXCEPT !.score = sc,
                  !.highScore = IF sc > @ THEN sc ELSE @]

\* mutant: the in-memory high score is not raised
mut_doHitState_noBest(s, i) ==
    [s EXCEPT !.tiles[i].hit = TRUE, !.score = @ + 1]

\* doHit on tiles[i]: the fields of `state` it leaves
doHitState(s, i) ==
    LET sc == s.score + 1
    IN  [s EXCEPT !.tiles[i].hit = TRUE,
                  !.score = sc,
                  !.highScore = IF sc > @ THEN sc ELSE @]

\* mutant: the high score is saved at every hit
mut_doHit_alwaysSaves(i) ==
    /\ state' = doHitState(state, i)
    /\ timers' = timers \cup {[tile |-> state.tiles[i].id,
                               due |-> now + REMOVE_DELAY]}
    /\ storage' = Max(storage, state.score + 1)
    /\ saveCount' = saveCount + 1
    /\ maxReached' = Max(maxReached, state.score + 1)
    /\ UNCHANGED <<now, raf, frameTs, nextId, priorBest>>

\* mutant: the raised high score is never written to storage
mut_doHit_neverSaves(i) ==
    /\ state' = doHitState(state, i)
    /\ timers' = timers \cup {[tile |-> state.tiles[i].id,
                               due |-> now + REMOVE_DELAY]}
    /\ maxReached' = Max(maxReached, state.score + 1)
    /\ UNCHANGED <<storage, saveCount, now, raf, frameTs, nextId, priorBest>>

doHit(i) ==
    /\ state' = doHitState(state, i)
    /\ timers' = timers \cup {[tile |-> state.tiles[i].id,
                               due |-> now + REMOVE_DELAY]}
    /\ IF state.score + 1 > state.highScore
       THEN /\ storage' = state.score + 1
            /\ saveCount' = saveCount + 1
       ELSE UNCHANGED <<storage, saveCount>>
    /\ maxReached' = Max(maxReached, state.score + 1)
    /\ UNCHANGED <<now, raf, frameTs, nextId, priorBest>>

\* mutant: the guard of handlePointer forgets state.paused
mut_handlePointer_tapsPaused(col) ==
    IF state = NULL \/ ~state.running \/ state.gameOver
    THEN UNCHANGED vars
    ELSE IF found(state.tiles, col) # 0
         THEN doHit(found(state.tiles, col))
         ELSE /\ state' = doGameOver(state)
              /\ UNCHANGED <<storage, now, raf, frameTs, timers, nextId,
                             saveCount, priorBest, maxReached>>

handlePointer(col) ==
    IF state = NULL \/ Lifecycle(state) # "Running"
    THEN UNCHANGED vars
    ELSE IF found(state.tiles, col) # 0
         THEN doHit(found(state.tiles, col))
         ELSE /\ state' = doGameOver(state)
              /\ UNCHANGED <<storage, now, raf, frameTs, timers, nextId,
                             saveCount, priorBest, maxReached>>

\* ------------------------------------------------------------- UI wiring
PointerDown == \E col \in Cols : handlePointer(col)

PauseBtnClick ==
    IF state = NULL \/ state.gameOver \/ ~state.running
    THEN UNCHANGED vars
    ELSE pauseToggle

StartBtnClick == startGame

RetryBtnClick == startGame

OverlayPlayBtnClick == startGame

\* mutant: quit installs a new idle session object instead of null
mut_QuitBtnClick_newState ==
    /\ state' = newState
    /\ timers' = {}
    /\ nextId' = 1
    /\ saveCount' = 0
    /\ priorBest' = storage
    /\ UNCHANGED <<storage, now, raf, frameTs, maxReached>>

\* state = null drops the session; its tiles and their timers can no longer
\* reach `state`, and the history of the session ends with it
QuitBtnClick ==
    /\ state' = NULL
    /\ timers' = {}
    /\ nextId' = 1
    /\ saveCount' = 0
    /\ priorBest' = storage
    /\ UNCHANGED <<storage, now, raf, frameTs, maxReached>>

\* mutant: Space starts a new game from Paused as well
mut_KeydownSpace_restartsPaused ==
    IF state = NULL \/ state.gameOver \/ ~state.running \/ state.paused
    THEN startGame
    ELSE pauseToggle

KeydownSpace ==
    IF state = NULL \/ state.gameOver \/ ~state.running
    THEN startGame
    ELSE pauseToggle

\* the setTimeout callback of doHit: tile._removed = true
TimerFire ==
    \E t \in timers :
        /\ now >= t.due
        /\ timers' = timers \ {t}
        /\ state' = [state EXCEPT !.tiles =
                        [i \in DOMAIN @ |->
                            IF @[i].id = t.tile
                            THEN [@[i] EXCEPT !.removed = TRUE]
                            ELSE @[i]]]
        /\ UNCHANGED <<storage, now, raf, frameTs, nextId,
                       saveCount, priorBest, maxReached>>

\* time passes, up to limit
TickTo(limit) ==
    /\ now + TickMs <= limit
    /\ now' = now + TickMs
    /\ UNCHANGED <<state, storage, raf, frameTs, timers, nextId,
                   saveCount, priorBest, maxReached>>

Tick == TickTo(MaxNow)

\* init(): state = newState(), first requestAnimationFrame(gameLoop)
Init ==
    /\ storage \in 0 .. MaxStored
    /\ state = newState
    /\ now = StartClock
    /\ raf = "scheduled"
    /\ frameTs = 0
    /\ timers = {}
    /\ nextId = 1
    /\ saveCount = 0
    /\ priorBest = storage
    /\ maxReached = storage

Next ==
    \/ GameLoop
    \/ PointerDown
    \/ PauseBtnClick
    \/ StartBtnClick
    \/ RetryBtnClick
    \/ OverlayPlayBtnClick
    \/ QuitBtnClick
    \/ KeydownSpace
    \/ TimerFire
    \/ Tick

Spec == Init /\ [][Next]_vars

\* ---------------------------------------------------------------------
\* Scenario D: one long session over a stored best score of PriorBestD.
\* The player starts once from the instruction screen, the browser
\* delivers a frame at every clock instant, timers fire before the clock
\* moves past the instant they are due at, and the session is neither
\* paused, restarted nor quit; taps are free.
InitD ==
    /\ storage = PriorBestD
    /\ state = newState
    /\ now = StartClock
    /\ raf = "scheduled"
    /\ frameTs = 0
    /\ timers = {}
    /\ nextId = 1
    /\ saveCount = 0
    /\ priorBest = storage
    /\ maxReached = storage

StartD == Lifecycle(state) = "Idle" /\ now = StartClock /\ OverlayPlayBtnClick

FrameD == GameLoop

TickD ==
    /\ now = frameTs
    /\ \A t \in timers : now < t.due
    /\ TickTo(MaxNowD)

NextD ==
    \/ StartD
    \/ FrameD
    \/ TickD
    \/ PointerDown
    \/ TimerFire

SpecD == InitD /\ [][NextD]_vars

\* ---------------------------------------------------------------------
\* Scenario L: Scenario D played for MaxNowL ms, long enough for the fall
\* speed to step up and for the spawn interval to decay to its floor, with
\* the random column of every spawn falling in ColsL.
ColsL == {0, COLS - 1}

FrameL == GameLoopIn(ColsL)

TickL ==
    /\ now = frameTs
    /\ \A t \in timers : now < t.due
    /\ TickTo(MaxNowL)

NextL ==
    \/ StartD
    \/ FrameL
    \/ TickL
    \/ PointerDown
    \/ TimerFire

SpecL == InitD /\ [][NextL]_vars

\* -------------------------------------------------------------- scenario F
\* One session with a player who taps and pauses, under the scheduling the
\* browser gives: the frame callback is called again and again, a due timer
\* fires before the clock moves on, time passes.  The player's last command
\* comes two ticks before the end of the observed time.
PlayerTimeF == now + 2 * TickMs <= MaxNowF

PointerDownF == PlayerTimeF /\ PointerDown

PauseF == PlayerTimeF /\ PauseBtnClick

FrameF == GameLoop

TickF ==
    /\ \A t \in timers : now < t.due
    /\ TickTo(MaxNowF)

NextF ==
    \/ StartD
    \/ FrameF
    \/ TickF
    \/ PointerDownF
    \/ PauseF
    \/ TimerFire

SpecF ==
    /\ InitD
    /\ [][NextF]_vars
    /\ WF_vars(FrameF)
    /\ WF_vars(TimerFire)
    /\ WF_vars(TickF)

\* -------------------------------------------------------------- scenario N
\* One session of a player who never taps, pauses or quits.  The frame
\* callback may skip a tick but not two, so frames with a positive delta
\* keep arriving as time passes.
FrameN == GameLoop

TickN ==
    /\ now - frameTs <= TickMs
    /\ TickTo(MaxNowN)

NextN ==
    \/ StartD
    \/ FrameN
    \/ TickN

SpecN ==
    /\ InitD
    /\ [][NextN]_vars
    /\ WF_vars(FrameN)
    /\ WF_vars(TickN)

\* ============================================================== claims

Running(s) == Lifecycle(s) = "Running"

hitCount(tiles) == Cardinality({i \in DOMAIN tiles : tiles[i].hit})

someEligible(s, col) == \E i \in DOMAIN s.tiles : eligible(s.tiles[i], col)

\* C1: while Running, a tap in a column that holds an unhit tile whose
\* centre is within HIT_WINDOW of the hit line marks exactly one tile hit,
\* raises the score by exactly 1 and leaves the session Running.
C1_TapHitsOne ==
    [][\A col \in Cols :
         (Running(state) /\ someEligible(state, col) /\ handlePointer(col))
         => /\ state'.score = state.score + 1
            /\ Running(state')
            /\ Len(state'.tiles) = Len(state.tiles)
            /\ hitCount(state'.tiles) = hitCount(state.tiles) + 1
            /\ \A i \in DOMAIN state.tiles :
                 state.tiles[i].hit => state'.tiles[i].hit]_vars

\* a session that scored its first point and runs on, the hit tile in place
C1_Witness ==
    /\ Running(state)
    /\ state.score = 1
    /\ hitCount(state.tiles) = 1
    /\ \E t \in timers : t.due = now + REMOVE_DELAY

\* C2: while Running, a tap in a column with no eligible tile ends the
\* game and leaves score and best score (in memory and stored) unchanged.
C2_MistapEndsGame ==
    [][\A col \in Cols :
         (Running(state) /\ ~someEligible(state, col) /\ handlePointer(col))
         => /\ Lifecycle(state') = "GameOver"
            /\ state'.score = state.score
            /\ state'.highScore = state.highScore
            /\ storage' = storage]_vars

\* game over with no tile past the miss line, one unhit tile in the window:
\* the tap went to another column than the tile's
C2_Witness ==
    /\ Lifecycle(state) = "GameOver"
    /\ ~missed(state.tiles)
    /\ \E i \in DOMAIN state.tiles :
         ~state.tiles[i].hit /\ inHitWindow(state.tiles[i])

\* C3: a frame processed while Running ends the game in that call exactly
\* when it leaves an unhit tile past the miss line; every tile then has
\* moved once by speed * dt and none was removed; hit tiles never count.
C3_MissEndsGameInCall ==
    [][(Running(state) /\ GameLoop)
       => LET dt == frameDt(state, now)
              sp == fallSpeed([state EXCEPT !.elapsed = @ + dt])
              unhitPast == \E i \in DOMAIN state'.tiles :
                               /\ ~state'.tiles[i].hit
                               /\ state'.tiles[i].y > missLine
          IN  /\ state'.gameOver <=> unhitPast
              /\ state'.gameOver =>
                   /\ Len(state'.tiles) >= Len(state.tiles)
                   /\ \A i \in DOMAIN state.tiles :
                        /\ state'.tiles[i].y = state.tiles[i].y + sp * dt
                        /\ state'.tiles[i].id = state.tiles[i].id]_vars

\* game over by a miss while a tile flagged for removal is still listed
\* and a second tile has moved in the same call
C3_Witness ==
    /\ Lifecycle(state) = "GameOver"
    /\ missed(state.tiles)
    /\ Len(state.tiles) >= 2
    /\ state.lastTime = now

\* C4: between two starts the score changes only by a successful tap, and
\* then by exactly +1; every other step leaves it as it is.
C4_ScoreOnlyByHit ==
    [][(state # NULL /\ state' # NULL /\ state'.score # state.score)
       => \/ startGame
          \/ /\ state'.score = state.score + 1
             /\ Running(state)
             /\ \E col \in Cols :
                  someEligible(state, col) /\ handlePointer(col)]_vars

\* a session that scored and then ended: the score survived the game over
C4_Witness ==
    /\ Lifecycle(state) = "GameOver"
    /\ state.score >= 1
    /\ state.lastTime = now

\* C5: the best score, in memory and in storage, is the maximum of the
\* value first found in storage and every score any session reached.
C5_BestIsMax ==
    /\ storage = maxReached
    /\ state # NULL => state.highScore = maxReached

\* a later session has loaded a best score that an earlier one raised
C5_Witness ==
    /\ Running(state)
    /\ state.score = 0
    /\ priorBest > MaxStored
    /\ state.highScore = priorBest

\* what C7 calls the whole session state
SessionView(s) ==
    IF s = NULL THEN <<"Idle">>
    ELSE <<Lifecycle(s), s.score, s.highScore, s.tiles, s.elapsed,
           s.spawnInterval>>

\* C7: a frame or a tap that arrives while the session is Idle, Paused or
\* GameOver leaves lifecycle state, score, best score, tiles, elapsed time
\* and spawn interval as they are.
C7_WrongStateNoOp ==
    [][(~Running(state) /\ (GameLoop \/ PointerDown))
       => /\ SessionView(state') = SessionView(state)
          /\ storage' = storage]_vars

\* a frame was delivered to a paused session whose spawn is overdue
C7_Witness ==
    /\ Lifecycle(state) = "Paused"
    /\ state.lastTime = now
    /\ spawnDue(state)
    /\ state.tiles # <<>>

\* C8 as stated: the pause command while Paused leaves the session Paused.
C8_PauseWhilePausedStays ==
    [][(Lifecycle(state) = "Paused" /\ PauseBtnClick)
       => Lifecycle(state') = "Paused" /\ state'.score = state.score]_vars

\* C8 amended: the pause control is a toggle.  While Paused it resumes the
\* session (Running, frame clock reset, everything else kept); while Idle
\* or GameOver it changes nothing; the score is never changed by it.
C8_PauseIsToggle ==
    [][PauseBtnClick
       => IF Lifecycle(state) = "Paused"
          THEN /\ Running(state')
               /\ state'.lastTime = 0
               /\ [state' EXCEPT !.paused = TRUE, !.lastTime = 0]
                    = [state EXCEPT !.lastTime = 0]
          ELSE IF Lifecycle(state) = "Running"
          THEN state' = [state EXCEPT !.paused = TRUE]
          ELSE UNCHANGED vars]_vars

\* a resumed session: Running with tiles, its frame clock cleared
C8_Witness ==
    /\ Running(state)
    /\ state.lastTime = 0
    /\ state.tiles # <<>>
    /\ state.score >= 1

StartCommand ==
    StartBtnClick \/ RetryBtnClick \/ OverlayPlayBtnClick \/ KeydownSpace

\* C9: a start command given in Idle or GameOver leaves a Running session
\* with score 0, no tiles, elapsed 0, spawn interval 900 ms and the stored
\* best score.
C9_StartFresh ==
    [][(Lifecycle(state) \in {"Idle", "GameOver"} /\ StartCommand)
       => /\ Running(state')
          /\ state'.score = 0
          /\ state'.tiles = <<>>
          /\ state'.elapsed = 0
          /\ state'.spawnInterval = INITIAL_SPAWN_INTERVAL * SiScale
          /\ state'.highScore = storage
          /\ storage' = storage]_vars

\* a fresh session started after an earlier one had raised the best score
C9_Witness ==
    /\ Running(state)
    /\ state.score = 0
    /\ state.tiles = <<>>
    /\ state.lastSpawnAt = now + FIRST_SPAWN_DELAY
    /\ state.highScore > MaxStored

\* C10 as stated: Start, Retry and Play are no-ops on a live session.
C10_StartWhileLiveNoOp ==
    [][(Lifecycle(state) \in {"Running", "Paused"}
        /\ (StartBtnClick \/ RetryBtnClick \/ OverlayPlayBtnClick))
       => SessionView(state') = SessionView(state)]_vars

\* C6 as stated: with a prior best of 3, by the time the score is 5 the
\* best score is 5 and exactly one persistence write has been issued.
C6_OneWriteByFive ==
    (state # NULL /\ priorBest = 3 /\ state.score = 5)
    => (state.highScore = 5 /\ saveCount = 1)

\* C6 amended: a write is issued at every hit that raises the best score
\* and at no other hit, so a session has issued max(0, score - prior best)
\* writes; with prior best 3 and score 5 the best score, in memory and
\* stored, is 5 after two writes (the 4th and the 5th hit).
C6_WritePerRaisingHit ==
    state # NULL =>
        /\ saveCount = Max(0, state.score - priorBest)
        /\ (priorBest = 3 /\ state.score = 5)
             => (state.highScore = 5 /\ storage = 5 /\ saveCount = 2)

\* score 5 over a prior best of 3
C6_Witness ==
    /\ state # NULL
    /\ priorBest = 3
    /\ state.score = 5
    /\ state.highScore = 5


\* C11: Paused is entered only from Running, GameOver is entered only from
\* Running, and a session in GameOver stays there until a start command or
\* quit.
C11_LifecycleOrder ==
    [][/\ (Lifecycle(state') = "Paused" /\ Lifecycle(state) # "Paused")
            => Running(state)
       /\ (Lifecycle(state') = "GameOver" /\ Lifecycle(state) # "GameOver")
            => Running(state)
       /\ (Lifecycle(state) = "GameOver" /\ Lifecycle(state') # "GameOver")
            => (StartCommand \/ QuitBtnClick)]_vars

\* a frame was delivered to a finished session whose spawn is overdue, and
\* the session is still in GameOver
C11_Witness ==
    /\ Lifecycle(state) = "GameOver"
    /\ state.lastTime = now
    /\ spawnDue(state)
    /\ state.tiles # <<>>

\* C12: quit is accepted in every state and leaves no session (Idle); a
\* start command given after it leaves a fresh Running session.
C12_QuitToIdle ==
    /\ [](ENABLED QuitBtnClick)
    /\ [][/\ QuitBtnClick
               => (state' = NULL /\ Lifecycle(state') = "Idle"
                   /\ timers' = {} /\ storage' = storage)
          /\ (state = NULL /\ StartCommand)
               => /\ Running(state')
                  /\ state'.score = 0
                  /\ state'.tiles = <<>>
                  /\ state'.elapsed = 0
                  /\ state'.spawnInterval = INITIAL_SPAWN_INTERVAL * SiScale
                  /\ state'.highScore = storage]_vars

\* a session started after a quit that a frame had seen (the frame found
\* state = null)
C12_Witness ==
    /\ Running(state)
    /\ raf = "dead"
    /\ state.score = 0
    /\ state.tiles = <<>>

\* C13: the flags of a session are always one of the four combinations that
\* stand for Idle, Running, Paused and GameOver.
C13_OneLifecycleState ==
    state # NULL =>
        <<state.running, state.paused, state.gameOver>> \in
            { <<FALSE, FALSE, FALSE>>, <<TRUE, FALSE, FALSE>>,
              <<TRUE, TRUE, FALSE>>, <<FALSE, FALSE, TRUE>> }

\* a session that was paused, resumed and then ended by a tap before its
\* next frame
C13_Witness ==
    /\ Lifecycle(state) = "GameOver"
    /\ state.lastTime = 0
    /\ state.tiles # <<>>
    /\ ~state.running /\ ~state.paused


\* C14: every frame processed while Running adds its delta to elapsed and
\* moves the tiles by speed * delta with
\* speed = 220 + 8 * floor(elapsed / 10 s), elapsed taken after the
\* addition; the speed never goes down from one frame to the next.
C14_FallSpeed ==
    [][(Running(state) /\ GameLoop)
       => LET dt == state'.elapsed - state.elapsed
              speed == BASE_SPEED
                       + SPEED_INCREASE_RATE * (state'.elapsed \div SPEED_STEP_MS)
              before == BASE_SPEED
                        + SPEED_INCREASE_RATE * (state.elapsed \div SPEED_STEP_MS)
          IN  /\ dt >= 0
              /\ dt = frameDt(state, now)
              /\ speed >= before
              /\ \A j \in DOMAIN state'.tiles :
                   /\ \A i \in DOMAIN state.tiles :
                        state.tiles[i].id = state'.tiles[j].id
                        => state'.tiles[j].y = state.tiles[i].y + speed * dt
                   /\ state'.tiles[j].id = nextId
                        => state'.tiles[j].y = speed * dt - tileHeight]_vars

\* more than 10 s of running time, and a tile that has fallen for two
\* ticks at the second speed step
C14_Witness ==
    /\ Running(state)
    /\ state.elapsed >= SPEED_STEP_MS
    /\ \E i \in DOMAIN state.tiles :
         state.tiles[i].y + tileHeight
            = (BASE_SPEED + SPEED_INCREASE_RATE) * 2 * TickMs

\* C15: the spawn interval of a session starts at 900 ms, changes only in
\* a frame that spawns a tile, where it becomes max(220, 0.98 * previous),
\* never grows and never falls below 220 ms.
C15_SpawnInterval ==
    /\ [](state # NULL =>
            /\ state.spawnInterval >= MIN_SPAWN_INTERVAL * SiScale
            /\ state.spawnInterval <= INITIAL_SPAWN_INTERVAL * SiScale
            /\ nextId = 1 =>
                 state.spawnInterval = INITIAL_SPAWN_INTERVAL * SiScale)
    /\ [][(state # NULL /\ state' # NULL /\ ~startGame)
          => LET si == state.spawnInterval
                 spawned == Running(state) /\ GameLoop /\ nextId' = nextId + 1
             IN  /\ state'.spawnInterval # si => spawned
                 /\ spawned =>
                      /\ state'.spawnInterval =
                            Max(MIN_SPAWN_INTERVAL * SiScale,
                                (si * SPAWN_DECAY_PCT) \div 100)
                      /\ state'.spawnInterval <= si
                      /\ Len(state'.tiles) <= Len(state.tiles) + 1]_vars

\* the interval has decayed to the floor and spawns go on
C15_Witness ==
    /\ Running(state)
    /\ state.spawnInterval = MIN_SPAWN_INTERVAL * SiScale
    /\ nextId > 70


\* C16: the session state is a function of the commands, the frame deltas
\* and the column choices alone.  A session whose deltas sum to zero has
\* been given no time, so, whatever the wall clock says, it holds no tile.
C16_NoTileWithoutDelta ==
    (state # NULL /\ state.elapsed = 0) => state.tiles = <<>>

\* what a session shows of the play: score, best score, the tiles with
\* their positions and hit flags, running time and spawn interval
PlayView(s) ==
    << s.score, s.highScore,
       [i \in DOMAIN s.tiles |->
           <<s.tiles[i].id, s.tiles[i].col, s.tiles[i].y, s.tiles[i].hit>>],
       s.elapsed, s.spawnInterval >>

\* C17: nothing done while Paused, short of starting a new game or
\* quitting, changes the score, best score, tiles, tile positions, hit
\* flags, running time or spawn interval, so they are the same after the
\* resume as at the pause; the resume clears the frame clock and the first
\* frame after it has delta zero: it adds no running time and moves no tile.
C17_PauseResume ==
    /\ [][(Lifecycle(state) = "Paused" /\ ~startGame /\ ~QuitBtnClick)
          => /\ state' # NULL
             /\ PlayView(state') = PlayView(state)
             /\ Running(state') => state'.lastTime = 0]_vars
    /\ [][(Running(state) /\ state.lastTime = 0 /\ GameLoop)
          => /\ state'.elapsed = state.elapsed
             /\ state'.lastTime = now
             /\ \A i \in DOMAIN state.tiles : \A j \in DOMAIN state'.tiles :
                  state.tiles[i].id = state'.tiles[j].id
                  => state'.tiles[j].y = state.tiles[i].y]_vars

\* a resumed session with running time and a tile, the wall clock far
\* past the last frame, its first frame not yet processed
C17_Witness ==
    /\ Running(state)
    /\ state.lastTime = 0
    /\ state.elapsed > 0
    /\ state.tiles # <<>>
    /\ now >= frameTs + 2 * TickMs

\* C18: Space in Idle (no session, or none started) or GameOver starts a
\* new session; while Running it pauses; while Paused it resumes the same
\* session, score and tiles intact.
C18_SpaceKey ==
    [][KeydownSpace
       => /\ Lifecycle(state) \in {"Idle", "GameOver"}
               => /\ Running(state')
                  /\ state'.score = 0 /\ state'.tiles = <<>>
                  /\ state'.elapsed = 0
          /\ Running(state)
               => /\ Lifecycle(state') = "Paused"
                  /\ PlayView(state') = PlayView(state)
          /\ Lifecycle(state) = "Paused"
               => /\ Running(state')
                  /\ PlayView(state') = PlayView(state)]_vars

\* a paused session with a score and a tile still falling
C18_Witness ==
    /\ Lifecycle(state) = "Paused"
    /\ state.score >= 1
    /\ \E i \in DOMAIN state.tiles : ~state.tiles[i].hit

\* C19: a frame spawns at most one tile, and only when the time since the
\* last spawn exceeds the spawn interval; the first frame of a session
\* whose delta exceeds the spawn interval leaves exactly one tile, above
\* the hit line.
C19_FirstTileAboveHitLine ==
    [][(Running(state) /\ GameLoop)
       => /\ Len(state'.tiles) <= Len(state.tiles) + 1
          /\ nextId' \in {nextId, nextId + 1}
          /\ nextId' = nextId + 1 => spawnDue(state)
          /\ (/\ state.elapsed = 0 /\ state.tiles = <<>> /\ nextId = 1
              /\ frameDt(state, now) * SiScale > state.spawnInterval)
               => /\ Len(state'.tiles) = 1
                  /\ state'.tiles[1].y < hitLineY]_vars

\* C20: after a frame that ends the game through a miss, the missed tile
\* is no longer in the tile collection.
C20_MissedTileRemoved ==
    [][(Running(state) /\ GameLoop /\ state'.gameOver)
       => ~missed(state'.tiles)]_vars

\* C20 as the code has it: the frame that ends the game through a miss
\* removes nothing, and the missed tile stays where it was, in the tile
\* collection, until a new game is started or the session is quit.
C20_MissedTileStays ==
    /\ [][(Running(state) /\ GameLoop /\ state'.gameOver)
          => /\ missed(state'.tiles)
             /\ Len(state'.tiles) >= Len(state.tiles)]_vars
    /\ [][(Lifecycle(state) = "GameOver" /\ ~startGame /\ ~QuitBtnClick)
          => /\ state' # NULL
             /\ PlayView(state') = PlayView(state)]_vars

\* a game ended by the miss of its only tile, frames still arriving
C20_Witness ==
    /\ Lifecycle(state) = "GameOver"
    /\ Len(state.tiles) = 1
    /\ missed(state.tiles)
    /\ state.score = 0
    /\ state.lastTime = now


\* the indices of the tiles a tap in column col may hit
eligibleSet(s, col) == {i \in DOMAIN s.tiles : eligible(s.tiles[i], col)}

\* C21: a tap in a column with several eligible tiles hits exactly one of
\* them, the first in the collection, which is the earliest spawned; every
\* other tile keeps its hit flag and the score rises by 1.
C21_TapHitsFirstEligible ==
    [][\A col \in Cols :
         (/\ Running(state) /\ state' # state
          /\ eligibleSet(state, col) # {} /\ handlePointer(col))
         => LET E == eligibleSet(state, col)
                k == CHOOSE i \in E : \A j \in E : i <= j
            IN  /\ state'.tiles[k].hit
                /\ \A j \in E : state.tiles[k].id <= state.tiles[j].id
                /\ \A i \in DOMAIN state.tiles \ {k} :
                     state'.tiles[i] = state.tiles[i]
                /\ DOMAIN state'.tiles = DOMAIN state.tiles
                /\ state'.score = state.score + 1]_vars

\* two tiles of one column in the hit window, the earlier one hit by the
\* only tap so far, the later one untouched
C21_Witness ==
    /\ Running(state)
    /\ state.score = 1
    /\ \E i, j \in DOMAIN state.tiles :
         /\ i < j
         /\ state.tiles[i].col = state.tiles[j].col
         /\ inHitWindow(state.tiles[i]) /\ inHitWindow(state.tiles[j])
         /\ state.tiles[i].hit /\ ~state.tiles[j].hit


\* an unhit tile whose centre is below the hit window and which has not
\* crossed hit line + tolerance + tile extent
pastWindow(t) ==
    /\ ~t.hit
    /\ (t.y + tileHeight \div 2) - hitLineY > HIT_WINDOW * Mpx
    /\ t.y <= hitLineY + HIT_WINDOW * Mpx + tileHeight

\* C22: a tap hits a tile only if |centre - hit line| <= tolerance; a frame
\* ends the game only if it leaves an unhit tile beyond
\* hit line + tolerance + tile extent; so an unhit tile between the two
\* thresholds does not end the game by itself, and a tap in its column,
\* with no eligible tile there, ends the game.
C22_DistinctThresholds ==
    /\ [][(state # NULL /\ state' # NULL /\ state'.score > state.score)
            => /\ Running(state)
               /\ \A i \in DOMAIN state.tiles \cap DOMAIN state'.tiles :
                    (~state.tiles[i].hit /\ state'.tiles[i].hit)
                    => /\ handlePointer(state.tiles[i].col)
                       /\ Abs((state.tiles[i].y + tileHeight \div 2) - hitLineY)
                             <= HIT_WINDOW * Mpx]_vars
    /\ [][(Running(state) /\ GameLoop)
            => (state'.gameOver <=>
                  \E i \in DOMAIN state'.tiles :
                     /\ ~state'.tiles[i].hit
                     /\ state'.tiles[i].y >
                           hitLineY + HIT_WINDOW * Mpx + tileHeight)]_vars
    /\ [][\A col \in Cols :
            (/\ Running(state)
             /\ \E i \in DOMAIN state.tiles :
                  state.tiles[i].col = col /\ pastWindow(state.tiles[i])
             /\ eligibleSet(state, col) = {}
             /\ handlePointer(col))
            => /\ Lifecycle(state') = "GameOver"
               /\ state'.score = state.score]_vars

\* game over by a tap while the only tile was between the two thresholds
C22_Witness ==
    /\ Lifecycle(state) = "GameOver"
    /\ Len(state.tiles) = 1
    /\ pastWindow(state.tiles[1])
    /\ state.score = 0


\* tile id is in the collection, hit
hitTile(s, id) == \E i \in DOMAIN s.tiles : s.tiles[i].id = id /\ s.tiles[i].hit

\* C23: the removal timer only marks the hit tile; a frame processed while
\* Running that does not end in a miss removes exactly the marked tiles;
\* while Paused or after GameOver the tiles, marked or not, stay; and as
\* long as the session is Running and frames arrive, every hit tile is
\* eventually out of the collection.
C23_HitTileRemoval ==
    /\ [][TimerFire
            => /\ PlayView(state') = PlayView(state)
               /\ \E i \in DOMAIN state.tiles :
                    ~state.tiles[i].removed /\ state'.tiles[i].removed]_vars
    /\ [][(Running(state) /\ GameLoop)
            => IF state'.gameOver
               THEN Len(state'.tiles) >= Len(state.tiles)
               ELSE /\ \A j \in DOMAIN state'.tiles : ~state'.tiles[j].removed
                    /\ \A i \in DOMAIN state.tiles :
                         state.tiles[i].removed
                         <=> ~\E j \in DOMAIN state'.tiles :
                                state'.tiles[j].id = state.tiles[i].id]_vars
    /\ [][(Lifecycle(state) \in {"Paused", "GameOver"} /\ ~startGame)
            => /\ Len(state'.tiles) = Len(state.tiles)
               /\ \A i \in DOMAIN state.tiles :
                    state.tiles[i].removed => state'.tiles[i].removed]_vars
    /\ \A id \in 1 .. MaxIdF :
         (Running(state) /\ hitTile(state, id))
            ~> (~Running(state) \/ ~hitTile(state, id))

\* a paused session that still holds a tile the timer has marked
C23_Witness ==
    /\ Lifecycle(state) = "Paused"
    /\ \E i \in DOMAIN state.tiles :
         state.tiles[i].hit /\ state.tiles[i].removed


\* C24: the spawn interval is measured in running time, so a frame that
\* adds no running time, the first frame after a resume, spawns no tile,
\* however long the pause was.
C24_NoSpawnAtResume ==
    [][(Running(state) /\ GameLoop /\ state.lastTime = 0 /\ state.elapsed > 0)
       => /\ nextId' = nextId
          /\ Len(state'.tiles) <= Len(state.tiles)]_vars

\* C25: the frame loop never stops: every frame callback completes and
\* schedules the next one.
C25_FrameLoopAlive == raf = "scheduled"

\* C26: with a session present, the in-memory best score is at least the
\* score and equals the stored best score.
C26_BestCoversScore ==
    state # NULL =>
        /\ state.highScore >= state.score
        /\ state.highScore = storage
        /\ storage >= 0

\* the first hit of a session that loaded best 0: best and storage are 1
C26_Witness ==
    /\ state # NULL
    /\ priorBest = 0
    /\ state.score = 1
    /\ state.highScore = 1
    /\ storage = 1
    /\ saveCount = 1

\* C27: a hit flag is never cleared, a scoring tap sets the flag of exactly
\* one tile that was unhit, and the score changes in no other way; so the
\* hit tiles still in the collection never outnumber the score and the
\* score never exceeds the number of tiles spawned in the session.
C27_TileScoresOnce ==
    /\ [](state # NULL =>
            /\ hitCount(state.tiles) <= state.score
            /\ state.score <= nextId - 1)
    /\ [][(state # NULL /\ state' # NULL /\ ~startGame)
            => /\ \A i \in DOMAIN state.tiles : \A j \in DOMAIN state'.tiles :
                    (state.tiles[i].id = state'.tiles[j].id /\ state.tiles[i].hit)
                    => state'.tiles[j].hit
               /\ state'.score # state.score
                    => /\ state'.score = state.score + 1
                       /\ DOMAIN state'.tiles = DOMAIN state.tiles
                       /\ Cardinality({i \in DOMAIN state.tiles :
                              ~state.tiles[i].hit /\ state'.tiles[i].hit}) = 1
                       /\ \A i \in DOMAIN state.tiles :
                              state.tiles[i].hit => state'.tiles[i] = state.tiles[i]]_vars

\* a tap while the only tile, already hit, was still in the hit window: the
\* tile was not selected again and the tap ended the game at score 1
C27_Witness ==
    /\ Lifecycle(state) = "GameOver"
    /\ state.score = 1
    /\ Len(state.tiles) = 1
    /\ state.tiles[1].hit
    /\ inHitWindow(state.tiles[1])


\* C28: a Running session whose player never taps, pauses or quits, and
\* which keeps receiving frames as time passes, eventually holds a tile and
\* eventually is in GameOver, reached by a frame that leaves an unhit tile
\* past the miss threshold.
C28_NoTapTerminates ==
    /\ Running(state) ~> (state.tiles # <<>>)
    /\ Running(state) ~> (Lifecycle(state) = "GameOver")
    /\ [][(Running(state) /\ ~Running(state'))
            => /\ GameLoop
               /\ Lifecycle(state') = "GameOver"
               /\ \E i \in DOMAIN state'.tiles :
                    /\ ~state'.tiles[i].hit
                    /\ state'.tiles[i].y >
                          hitLineY + HIT_WINDOW * Mpx + tileHeight]_vars

\* the untouched session is over: no score, no timer, the first tile past
\* the miss line after more than two spawn intervals of running time
C28_Witness ==
    /\ Lifecycle(state) = "GameOver"
    /\ state.score = 0
    /\ timers = {}
    /\ state.elapsed >= 2 * INITIAL_SPAWN_INTERVAL
    /\ state.tiles # <<>>
    /\ state.tiles[1].y > missLine

====
